---- MODULE Spec2Model ----
(***************************************************************************)
(* A model of the Pepsico-man game logic:                                  *)
(*   - World::deserialize (source/common/ecs/world.cpp) with the          *)
(*     process-wide occupancy grid entityMap;                              *)
(*   - FreeCameraControllerSystem::update / exit (the jump / slide state   *)
(*     machine of the player controller).                                  *)
(*                                                                         *)
(* Lengths are fixed-point: one unit is 0.5 world units, so the ground     *)
(* height 1.0 is 2 and the maximum jump height 4.0 is 8.  Time is counted  *)
(* in units of 1/6 s, so that jumpSpeed * deltaTime = 6 * dt is 2 length   *)
(* units per time unit.                                                    *)
(***************************************************************************)
EXTENDS Integers, Sequences, FiniteSets, TLC

(***************************************************************************)
(* Bounds of the model.                                                    *)
(***************************************************************************)
\* rows of the occupancy grid (world.cpp:8 sets 400; the model scales it down)
ENTITIES_UPPER_LIMIT == 2
\* lanes (columns) of the occupancy grid (world.cpp:13 sets 7; scaled down)
LANES == 2
\* longest JSON array handed to a top-level deserialize call
MaxLen == 2
\* the "duplicates" count of a linearly spaced description
MaxCount == 3
\* a top-level deserialize call is made on a world holding at most this many entities
MaxWorldBefore == 1

\* world.cpp:9
SLICE_SIZE == 13

VARIABLES
    entities,     \* World::entities, in creation order: entity id = index
    entityMap,    \* the global occupancy grid: entityMap[row][lane]
    stack,        \* the activation records of World::deserialize (innermost last)
    call,         \* the last top-level deserialize call: its arguments and the state it started in
    assigned,     \* assigned[row][lane]: how many duplicates were given that cell
    jumpState,    \* FreeCameraControllerSystem::jumpState
    slideState,   \* FreeCameraControllerSystem::slideState
    slideTime,    \* FreeCameraControllerSystem::slideTime, in time units
    mouse_locked, \* FreeCameraControllerSystem::mouse_locked
    motionState,  \* the caller's MotionState, passed to update by reference
    isSlided,     \* the caller's flag, passed to update by reference
    levelState,   \* Application::levelState
    level,        \* World::level
    lockDepth,    \* lockMouse calls made minus unlockMouse calls made
    updated,      \* an update call has been made
    steady,       \* the frame delta of a run at a constant frame rate, 0 when it varies
    frames,       \* at a constant frame rate: the updates in a row that ended Slided
    countPepsi,   \* Application::countPepsi
    heartCount,   \* Application::heartCount
    current,      \* the name of the state the application runs
    buttonHover,  \* LevelsState::buttonHover
    downBefore,   \* the keys and the mouse button that were down in the previous frame
    drawn         \* the last LevelsState::onDraw: actions invoked, states requested, sounds
                  \* played, and whether the cursor was inside a button

\* the state of World::deserialize besides the entities
loadVars == <<entityMap, stack, call, assigned>>

\* the state of the controller system and of its caller besides the entities
ctlVars == <<jumpState, slideState, slideTime, mouse_locked, motionState, isSlided,
             levelState, level, lockDepth, updated, steady, frames>>

\* the state of the level-selection screen and of the application around it
menuVars == <<countPepsi, heartCount, current, buttonHover, downBefore, drawn>>

vars == <<entities, entityMap, stack, call, assigned, jumpState, slideState, slideTime,
          mouse_locked, motionState, isSlided, levelState, level, lockDepth, updated,
          steady, frames, countPepsi, heartCount, current, buttonHover, downBefore, drawn>>

(***************************************************************************)
(* JSON values.  A value is a record with its kind and, for an array, its  *)
(* items; an entity description is an object with a name, a position and   *)
(* the optional keys "children" and "duplicates".                          *)
(***************************************************************************)
JNull == [kind |-> "null", items |-> <<>>]
JObject == [kind |-> "object", items |-> <<>>]
JObjectOf(s) == [kind |-> "object", items |-> s]
JArray(s) == [kind |-> "array", items |-> s]

is_array(j) == j.kind = "array"

NoKey == [present |-> FALSE, count |-> 0, spacing |-> 0, flag |-> 0]
Duplicates(c, s, f) == [present |-> TRUE, count |-> c, spacing |-> s, flag |-> f]

NoChildren == [present |-> FALSE, val |-> JNull]
Children(j) == [present |-> TRUE, val |-> j]

Description(n, px, pz, ch, du) ==
    [name |-> n, x |-> px, y |-> 0, z |-> pz, components |-> {},
     children |-> ch, duplicates |-> du]

\* a description with neither key, as the element of a nested "children" array
Wheel == Description("wheel", 0, 2, NoChildren, NoKey)

Descriptions ==
    { Description("coin", 4, 0, NoChildren, NoKey),
      \* linear spacing 1.5, MaxCount - 1 copies
      Description("fence", 0, -15, NoChildren, Duplicates(MaxCount, 3, 0)),
      \* count <= 1: no copy; "children" is not an array
      Description("sign", 0, 0, Children(JObject), Duplicates(1, 2, 1)),
      \* random placement, one copy
      Description("can", 2, 0, NoChildren, Duplicates(2, 2, 1)),
      Description("car", 0, 0, Children(JArray(<<Wheel>>)), NoKey),
      Description("bus", 0, 0, Children(JArray(<<Wheel, Wheel>>)), Duplicates(3, 2, 0)),
      Description("van", 0, 0, Children(JArray(<<Wheel>>)), Duplicates(2, 2, 1)) }

RECURSIVE SeqsUpTo(_, _)
SeqsUpTo(S, n) ==
    IF n = 0 THEN { <<>> }
    ELSE LET shorter == SeqsUpTo(S, n - 1)
         IN shorter \cup { Append(s, d) : s \in { t \in shorter : Len(t) = n - 1 }, d \in S }

Coin == Description("coin", 4, 0, NoChildren, NoKey)
Can == Description("can", 2, 0, NoChildren, Duplicates(2, 2, 1))

\* the data a top-level call may be given: a non-array value (null, or an object
\* whose values are entity descriptions) or an array of descriptions
Documents ==
    { JNull, JObjectOf(<<Coin>>) } \cup { JArray(s) : s \in SeqsUpTo(Descriptions, MaxLen) }

\* a description at the centre of lane 0 (z = -7.5), with two random copies
Cone == Description("cone", 0, -15, NoChildren, Duplicates(3, 2, 1))

\* scenes of randomly placed duplicates only: one can and its one copy, or
\* one cone and its two copies
GridDocuments == { JArray(<<Can>>), JArray(<<Cone>>) }

(***************************************************************************)
(* The world.                                                              *)
(***************************************************************************)
NullEntity == 0

Rows == 0..(ENTITIES_UPPER_LIMIT - 1)
Lanes == 0..(LANES - 1)

\* std::vector<std::vector<bool>> entityMap(ENTITIES_UPPER_LIMIT, std::vector<bool>(7, false))
EmptyMap == [v \in Rows |-> [h \in Lanes |-> FALSE]]

\* int generateRandomNumber(int min, int max): rand() % (max - min + 1) + min,
\* with rand() >= 0: every value of min..max is a possible result
generateRandomNumberStuck(min, max) == {min}
generateRandomNumber(min, max) == min..max

\* World::add (world.hpp): a fresh entity, not yet deserialized
WorldAdd ==
    [name |-> "", parent |-> NullEntity, x |-> 0, y |-> 0, z |-> 0, rx |-> 0, ry |-> 0,
     components |-> {}]

\* Entity::deserialize (entity.cpp): name, transform and components are read
\* from the description
EntityDeserialize(e, d) ==
    [e EXCEPT !.name = d.name, !.x = d.x, !.y = d.y, !.z = d.z,
              !.components = d.components]

NewEntityNoParent(d, parent) == EntityDeserialize(WorldAdd, d)

\* lines 29-31 (and 41-44): add(), set the parent, deserialize
NewEntity(d, parent) ==
    EntityDeserialize([WorldAdd EXCEPT !.parent = parent], d)

\* an activation of deserialize(data, parent) on an array: the for loop is at
\* element k; phase "for" is the loop head, "dups" the duplicates loop at i,
\* "while" the rejection-sampling loop holding horizontal and vertical.
\* base is the number of entities of the world when the activation started.
Frame(items, parent, base) ==
    [data |-> items, parent |-> parent, k |-> 1, phase |-> "for", i |-> 1,
     newEntity |-> NullEntity, horizontal |-> 0, vertical |-> 0, base |-> base]

EnterAnyway(data, parent, base) == <<Frame(data.items, parent, base)>>

\* lines 24-26: entering deserialize(data, parent): nothing to run unless data
\* is an array
Enter(data, parent, base) ==
    IF ~is_array(data) THEN <<>> ELSE <<Frame(data.items, parent, base)>>

Top == stack[Len(stack)]
SetTop(f) == [stack EXCEPT ![Len(stack)] = f]
Idle == stack = <<>>
InWhile == ~Idle /\ Top.phase = "while"

NoCall == [made |-> FALSE, data |-> JNull, parent |-> NullEntity, before |-> <<>>,
           map |-> EmptyMap]

\* the controller system as constructed (lines 40-44) and its caller's state
InitController ==
    /\ jumpState = "GROUNDED"
    /\ slideState = "NORMAL"
    /\ slideTime = 0
    /\ mouse_locked = FALSE
    /\ motionState = "RESTING"
    /\ isSlided = FALSE
    /\ lockDepth = 0
    /\ updated = FALSE

\* the frame rate is not held constant
InitSteady == steady = 0 /\ frames = 0

\* no frame of the level-selection screen was drawn
NoFrame == [invoked |-> <<>>, requests |-> <<>>, sounds |-> 0, inside |-> FALSE]

\* the play state runs, a new game of level 1
InitPlaying ==
    /\ countPepsi = 0
    /\ heartCount = 3
    /\ current = "play"
    /\ buttonHover = FALSE
    /\ downBefore = {}
    /\ drawn = NoFrame

\* the occupancy grid as constructed (line 13), no call made
InitLoad ==
    /\ entityMap = EmptyMap
    /\ stack = <<>>
    /\ call = NoCall
    /\ assigned = [v \in Rows |-> [h \in Lanes |-> 0]]

Init ==
    /\ entities = <<>>
    /\ InitLoad
    /\ InitController
    /\ InitSteady
    /\ InitPlaying
    /\ levelState = 1
    /\ level = 1

\* world.deserialize(data, parent) called from outside
Deserialize(data, parent) ==
    /\ Idle
    /\ call' = [made |-> TRUE, data |-> data, parent |-> parent,
                before |-> entities, map |-> entityMap]
    /\ stack' = Enter(data, parent, Len(entities))
    /\ UNCHANGED <<entities, entityMap, assigned>>
    /\ UNCHANGED ctlVars /\ UNCHANGED menuVars

ForStepOffByOne ==
    /\ ~Idle
    /\ Top.phase = "for"
    /\ IF Top.k >= Len(Top.data)
       THEN /\ stack' = SubSeq(stack, 1, Len(stack) - 1)
            /\ UNCHANGED entities
       ELSE LET d == Top.data[Top.k]
                id == Len(entities) + 1
                here == [Top EXCEPT !.phase = "dups", !.i = 1, !.newEntity = id]
            IN /\ entities' = Append(entities, NewEntity(d, Top.parent))
               /\ stack' = IF d.children.present
                           THEN SetTop(here) \o Enter(d.children.val, id, id)
                           ELSE SetTop(here)
    /\ UNCHANGED <<entityMap, call, assigned>>
    /\ UNCHANGED ctlVars /\ UNCHANGED menuVars

\* a variant that hands the children the parent of the original
ForStepChildrenOfParent ==
    /\ ~Idle
    /\ Top.phase = "for"
    /\ IF Top.k > Len(Top.data)
       THEN /\ stack' = SubSeq(stack, 1, Len(stack) - 1)
            /\ UNCHANGED entities
       ELSE LET d == Top.data[Top.k]
                id == Len(entities) + 1
                here == [Top EXCEPT !.phase = "dups", !.i = 1, !.newEntity = id]
            IN /\ entities' = Append(entities, NewEntity(d, Top.parent))
               /\ stack' = IF d.children.present
                           THEN SetTop(here) \o Enter(d.children.val, Top.parent, id)
                           ELSE SetTop(here)
    /\ UNCHANGED <<entityMap, call, assigned>>
    /\ UNCHANGED ctlVars /\ UNCHANGED menuVars

\* lines 27-37: the head of the for loop: return at the end of the array, else
\* create the entity and recurse into its "children"
ForStep ==
    /\ ~Idle
    /\ Top.phase = "for"
    /\ IF Top.k > Len(Top.data)
       THEN /\ stack' = SubSeq(stack, 1, Len(stack) - 1)
            /\ UNCHANGED entities
       ELSE LET d == Top.data[Top.k]
                id == Len(entities) + 1
                here == [Top EXCEPT !.phase = "dups", !.i = 1, !.newEntity = id]
            IN /\ entities' = Append(entities, NewEntity(d, Top.parent))
               /\ stack' = IF d.children.present
                           THEN SetTop(here) \o Enter(d.children.val, id, id)
                           ELSE SetTop(here)
    /\ UNCHANGED <<entityMap, call, assigned>>
    /\ UNCHANGED ctlVars /\ UNCHANGED menuVars

\* the loop bound of line 40 and its off-by-one variant
MoreDuplicatesInclusive(i, count) == i <= count
MoreDuplicates(i, count) == i < count

\* line 57 and a variant that forgets the index
LinearOffsetNoIndex(i, spacing) == -spacing
LinearOffset(i, spacing) == -i * spacing

\* lines 38-45 and 56-59: the duplicates loop
DupStep ==
    /\ ~Idle
    /\ Top.phase = "dups"
    /\ LET d == Top.data[Top.k]
           duplicates == d.duplicates
       IN IF ~duplicates.present \/ ~MoreDuplicates(Top.i, duplicates.count)
          THEN /\ stack' = SetTop([Top EXCEPT !.phase = "for", !.k = @ + 1])
               /\ UNCHANGED entities
          ELSE LET dup == NewEntity(d, Top.parent)
               IN IF duplicates.flag # 0
                  THEN \E horizontal \in generateRandomNumber(0, LANES - 1),
                          vertical \in generateRandomNumber(0, ENTITIES_UPPER_LIMIT - 1) :
                          /\ entities' = Append(entities, dup)
                          /\ stack' = SetTop([Top EXCEPT !.phase = "while",
                                                         !.horizontal = horizontal,
                                                         !.vertical = vertical])
                  ELSE /\ entities' = Append(entities,
                                [dup EXCEPT !.x = @ + LinearOffset(Top.i, duplicates.spacing)])
                       /\ stack' = SetTop([Top EXCEPT !.i = @ + 1])
    /\ UNCHANGED <<entityMap, call, assigned>>
    /\ UNCHANGED ctlVars /\ UNCHANGED menuVars

\* the loop condition of line 48 and a variant that never loops
CellTakenIgnored(map, vertical, horizontal) == FALSE
CellTaken(map, vertical, horizontal) == map[vertical][horizontal]

\* lines 48-51: the cell drawn is occupied: draw again
Resample ==
    /\ InWhile
    /\ CellTaken(entityMap, Top.vertical, Top.horizontal)
    /\ \E horizontal \in generateRandomNumber(0, LANES - 1),
          vertical \in generateRandomNumber(0, ENTITIES_UPPER_LIMIT - 1) :
          stack' = SetTop([Top EXCEPT !.horizontal = horizontal, !.vertical = vertical])
    /\ UNCHANGED <<entities, entityMap, call, assigned>>
    /\ UNCHANGED ctlVars /\ UNCHANGED menuVars

\* a variant that forgets line 52
PlaceUnmarked ==
    /\ InWhile
    /\ ~CellTaken(entityMap, Top.vertical, Top.horizontal)
    /\ assigned' = [assigned EXCEPT ![Top.vertical][Top.horizontal] = @ + 1]
    /\ entities' = [entities EXCEPT
                       ![Len(entities)].x = @ - Top.vertical * SLICE_SIZE * 2,
                       ![Len(entities)].z = -15 + Top.horizontal * 5]
    /\ stack' = SetTop([Top EXCEPT !.phase = "dups", !.i = @ + 1])
    /\ UNCHANGED <<call, entityMap>>
    /\ UNCHANGED ctlVars /\ UNCHANGED menuVars

\* lines 52-55: the cell drawn is free: occupy it and move the duplicate there
\* (x in half units: SLICE_SIZE * 2; z = -7.5 + horizontal * 2.5)
Place ==
    /\ InWhile
    /\ ~CellTaken(entityMap, Top.vertical, Top.horizontal)
    /\ entityMap' = [entityMap EXCEPT ![Top.vertical][Top.horizontal] = TRUE]
    /\ assigned' = [assigned EXCEPT ![Top.vertical][Top.horizontal] = @ + 1]
    /\ entities' = [entities EXCEPT
                       ![Len(entities)].x = @ - Top.vertical * SLICE_SIZE * 2,
                       ![Len(entities)].z = -15 + Top.horizontal * 5]
    /\ stack' = SetTop([Top EXCEPT !.phase = "dups", !.i = @ + 1])
    /\ UNCHANGED call
    /\ UNCHANGED ctlVars /\ UNCHANGED menuVars

\* the world is torn down and a new one is created (a state is left and
\* entered again); the occupancy grid is global and stays as it is
NewWorld ==
    /\ Idle
    /\ entities # <<>>
    /\ entities' = <<>>
    /\ call' = NoCall
    /\ UNCHANGED <<entityMap, stack, assigned>>
    /\ UNCHANGED ctlVars /\ UNCHANGED menuVars

DeserializeCall ==
    /\ Len(entities) <= MaxWorldBefore
    /\ \E data \in Documents, parent \in {NullEntity} \cup (1..Len(entities)) :
          Deserialize(data, parent)

DeserializeGridCall ==
    /\ Len(entities) <= MaxWorldBefore
    /\ \E data \in GridDocuments, parent \in {NullEntity} \cup (1..Len(entities)) :
          Deserialize(data, parent)

Next == DeserializeCall \/ ForStep \/ DupStep \/ Resample \/ Place

Spec == Init /\ [][Next]_vars

NextGrid == DeserializeGridCall \/ ForStep \/ DupStep \/ Resample \/ Place \/ NewWorld

SpecGrid == Init /\ [][NextGrid]_vars

\* fair random choice: a draw of a free cell is not put off forever while one
\* exists, and the steps of a running call are taken
ResampleFree == Resample /\ ~entityMap[Top'.vertical][Top'.horizontal]

SpecGridFair ==
    /\ Init
    /\ [][NextGrid]_vars
    /\ WF_vars(ForStep) /\ WF_vars(DupStep) /\ WF_vars(Place)
    /\ WF_vars(ResampleFree)

(***************************************************************************)
(* FreeCameraControllerSystem.                                             *)
(*                                                                         *)
(* The camera of the level is level (no pitch, no roll) and looks down the *)
(* track, along -x: cameraUp is +y and cameraRight is -z.  The forward     *)
(* coordinate x (keys W and S, running) and the field of view are read by  *)
(* no property and are left out.  Angles are in units of 0.01 rad.         *)
(***************************************************************************)
\* the longest frame, in time units of 1/6 s
MaxDelta == 3

\* float jumpSpeed = 6
jumpSpeed == 6
\* float jumpMaxHeight = 4
jumpMaxHeight == 4
\* slideTime >= deltaTime * 50
slideFrames == 50
\* the corridor: cameraPosition.z < 5, cameraPosition.z > -5
laneLimit == 5
\* glm::half_pi<float>() * 0.99f = 1.555..., rounded down
pitchLimit == 155
\* 2 * pi, the period of glm::wrapAngle
twoPi == 628
\* FreeCameraControllerComponent::positionSensitivity.y
positionSensitivityY == 3
\* PlayerComponent::speed
playerSpeed == 15
\* the z coordinate of cameraRight for the camera of the level
cameraRightZ == -1

\* a length of the source in model units (half world units)
Units(x) == 2 * x

\* the distance covered at a speed (world units per second) in deltaTime
Travel(speed, deltaTime) == (speed * deltaTime * 2) \div 6

DeltaTimes == 1..MaxDelta

\* the keys and buttons update reads, but for the lateral ones and for W,
\* which moves the camera forward only
Buttons == {"S", "Q", "E", "SPACE", "UP", "DOWN", "ENTER", "MOUSE_BUTTON_1"}

\* the lateral keys
LateralKeys == {"D", "RIGHT", "A", "LEFT"}

\* the keys and buttons held during a frame: none, one, the jump key with
\* another one, both arrows, the slide key with the mouse button
PressedSets ==
    { {} } \cup { {k} : k \in Buttons } \cup { {"SPACE", k} : k \in Buttons }
    \cup { {"DOWN", "UP"}, {"S", "MOUSE_BUTTON_1"} }

isPressed(pressed, key) == key \in pressed

CameraEntitiesCameraOnly(es) == { id \in 1..Len(es) : "camera" \in es[id].components }

\* lines 56-63: the entities holding both a camera and a controller component
CameraEntities(es) ==
    { id \in 1..Len(es) : {"camera", "controller"} \subseteq es[id].components }

\* lines 66-71: the entities holding a player component
PlayerEntities(es) == { id \in 1..Len(es) : "player" \in es[id].components }

\* lines 74-75: update goes on only if camera, controller and player were found
Found(es) == CameraEntities(es) # {} /\ PlayerEntities(es) # {}

MouseLockAgain(locked, pressed) ==
    IF isPressed(pressed, "MOUSE_BUTTON_1") THEN [locked |-> TRUE, calls |-> 1]
    ELSE IF locked THEN [locked |-> FALSE, calls |-> -1]
         ELSE [locked |-> locked, calls |-> 0]

\* lines 94-101: the new lock flag, and the lock (+1) or unlock (-1) call made
MouseLock(locked, pressed) ==
    IF isPressed(pressed, "MOUSE_BUTTON_1") /\ ~locked THEN [locked |-> TRUE, calls |-> 1]
    ELSE IF ~isPressed(pressed, "MOUSE_BUTTON_1") /\ locked
         THEN [locked |-> FALSE, calls |-> -1]
         ELSE [locked |-> locked, calls |-> 0]

ClampPitchAbove(rx) == IF rx > pitchLimit THEN pitchLimit ELSE rx

\* lines 104-107
ClampPitch(rx) ==
    IF rx < -pitchLimit THEN -pitchLimit ELSE IF rx > pitchLimit THEN pitchLimit ELSE rx

\* line 111: glm::wrapAngle(angle) = abs(mod(angle, two_pi)), mod taking the
\* sign of the divisor
wrapAngle(ry) == ry % twoPi

\* lines 147-151: Q and E move the camera along cameraUp
UpDown(y, pressed, deltaTime) ==
    LET y1 == IF isPressed(pressed, "Q")
              THEN y + Travel(positionSensitivityY, deltaTime) ELSE y
    IN IF isPressed(pressed, "E") THEN y1 - Travel(positionSensitivityY, deltaTime) ELSE y1

\* lines 157-159: the jump starts
JumpStarts(pressed, lvl, js, ss) ==
    /\ isPressed(pressed, "SPACE") \/ isPressed(pressed, "UP")
    /\ lvl # 3
    /\ js = "GROUNDED" /\ ss = "NORMAL"

\* line 168
StartHeightNoLift(y, deltaTime) == y
StartHeight(y, deltaTime) == y + Travel(jumpSpeed, deltaTime)

LandingAboveOnly(js, y) ==
    IF y > Units(jumpMaxHeight) THEN "FALLING"
    ELSE IF y <= Units(1) THEN "GROUNDED"
    ELSE js

\* lines 172-184: the top of the jump and the landing
Landing(js, y) ==
    IF y >= Units(jumpMaxHeight) THEN "FALLING"
    ELSE IF y <= Units(1) THEN "GROUNDED"
    ELSE js

VerticalNoPin(js, y, deltaTime) ==
    IF js = "JUMPING" THEN y + Travel(jumpSpeed, deltaTime)
    ELSE IF js = "FALLING" THEN y - Travel(jumpSpeed, deltaTime)
    ELSE y

\* lines 187-195: the height after the move of this frame
Vertical(js, y, deltaTime) ==
    IF js = "JUMPING" THEN y + Travel(jumpSpeed, deltaTime)
    ELSE IF js = "FALLING" THEN y - Travel(jumpSpeed, deltaTime)
    ELSE Units(1)

SlideStartsInTheAir(pressed, lvl, js, ss) ==
    /\ isPressed(pressed, "S") \/ isPressed(pressed, "DOWN")
    /\ lvl # 3
    /\ ss = "NORMAL"

\* lines 198-200: the slide starts
SlideStarts(pressed, lvl, js, ss) ==
    /\ isPressed(pressed, "S") \/ isPressed(pressed, "DOWN")
    /\ lvl # 3
    /\ ss = "NORMAL" /\ js = "GROUNDED"

\* lines 210-212: the player lies down
LieDown(e) == [e EXCEPT !.rx = @ - 90 * 100, !.z = @ - Units(1), !.y = @ + Units(1)]

GetUpTurned(e) == [e EXCEPT !.y = @ - Units(1), !.z = @ + Units(1)]

\* lines 225-227: the player gets up
GetUp(e) == [e EXCEPT !.y = @ - Units(1), !.z = @ + Units(1), !.rx = @ + 90 * 100]

SlideOverLate(time, deltaTime) == time > deltaTime * slideFrames

\* line 219: the slide is over
SlideOver(time, deltaTime) == time >= deltaTime * slideFrames

\* lines 240-259: the lateral move of the camera
Lateral(z, pressed, lvl, deltaTime) ==
    LET step == cameraRightZ * Travel(playerSpeed, deltaTime)
        right == isPressed(pressed, "D") \/ isPressed(pressed, "RIGHT")
        left == isPressed(pressed, "A") \/ isPressed(pressed, "LEFT")
        z1 == IF ~right THEN z
              ELSE IF lvl = 3 THEN (IF z < Units(laneLimit) THEN z - step ELSE z)
              ELSE (IF z > -Units(laneLimit) THEN z + step ELSE z)
    IN IF ~left THEN z1
       ELSE IF lvl = 3 THEN (IF z1 > -Units(laneLimit) THEN z1 + step ELSE z1)
       ELSE (IF z1 < Units(laneLimit) THEN z1 - step ELSE z1)

\* a variant that forgets line 220
UpdateBodyFlagKept(st, cam, ply, pressed, deltaTime) ==
    LET lock == MouseLock(st.mouse_locked, pressed)
        \* lines 104-111
        es1 == [st.entities EXCEPT ![cam].rx = ClampPitch(@), ![cam].ry = wrapAngle(@)]
        \* lines 147-151
        es2 == [es1 EXCEPT ![cam].y = UpDown(@, pressed, deltaTime)]
        \* lines 157-170
        starts == JumpStarts(pressed, st.levelState, st.jumpState, st.slideState)
        js1 == IF starts THEN "JUMPING" ELSE st.jumpState
        es3 == IF starts THEN [es2 EXCEPT ![cam].y = StartHeight(@, deltaTime)] ELSE es2
        \* lines 172-195
        js2 == Landing(js1, es3[cam].y)
        es4 == [es3 EXCEPT ![cam].y = Vertical(js2, @, deltaTime)]
        \* lines 198-215
        slides == SlideStarts(pressed, st.levelState, js2, st.slideState)
        ss1 == IF slides THEN "Slided" ELSE st.slideState
        es5 == IF slides THEN [es4 EXCEPT ![ply] = LieDown(@)] ELSE es4
        time1 == IF slides THEN 0 ELSE st.slideTime
        \* lines 216-229
        time2 == IF ss1 = "Slided" THEN time1 + deltaTime ELSE time1
        over == ss1 = "Slided" /\ SlideOver(time2, deltaTime)
        ss2 == IF over THEN "NORMAL" ELSE ss1
        es6 == IF over THEN [es5 EXCEPT ![ply] = GetUp(@)] ELSE es5
        slid == IF ss1 = "Slided" THEN TRUE ELSE (slides \/ st.isSlided)
        \* lines 232-234
        motion == IF isPressed(pressed, "ENTER") THEN "RUNNING" ELSE st.motionState
        \* lines 240-259
        es7 == [es6 EXCEPT ![cam].z = Lateral(@, pressed, st.level, deltaTime)]
    IN [entities |-> es7, jumpState |-> js2, slideState |-> ss2, slideTime |-> time2,
        mouse_locked |-> lock.locked, lockDepth |-> st.lockDepth + lock.calls,
        motionState |-> motion, isSlided |-> slid,
        levelState |-> st.levelState, level |-> st.level]

\* lines 77-259: the body of update once the camera entity cam and the player
\* entity ply are found; st holds the fields the body reads and writes
UpdateBody(st, cam, ply, pressed, deltaTime) ==
    LET lock == MouseLock(st.mouse_locked, pressed)
        \* lines 104-111
        es1 == [st.entities EXCEPT ![cam].rx = ClampPitch(@), ![cam].ry = wrapAngle(@)]
        \* lines 147-151
        es2 == [es1 EXCEPT ![cam].y = UpDown(@, pressed, deltaTime)]
        \* lines 157-170
        starts == JumpStarts(pressed, st.levelState, st.jumpState, st.slideState)
        js1 == IF starts THEN "JUMPING" ELSE st.jumpState
        es3 == IF starts THEN [es2 EXCEPT ![cam].y = StartHeight(@, deltaTime)] ELSE es2
        \* lines 172-195
        js2 == Landing(js1, es3[cam].y)
        es4 == [es3 EXCEPT ![cam].y = Vertical(js2, @, deltaTime)]
        \* lines 198-215
        slides == SlideStarts(pressed, st.levelState, js2, st.slideState)
        ss1 == IF slides THEN "Slided" ELSE st.slideState
        es5 == IF slides THEN [es4 EXCEPT ![ply] = LieDown(@)] ELSE es4
        time1 == IF slides THEN 0 ELSE st.slideTime
        \* lines 216-229
        time2 == IF ss1 = "Slided" THEN time1 + deltaTime ELSE time1
        over == ss1 = "Slided" /\ SlideOver(time2, deltaTime)
        ss2 == IF over THEN "NORMAL" ELSE ss1
        es6 == IF over THEN [es5 EXCEPT ![ply] = GetUp(@)] ELSE es5
        slid == IF ss1 = "Slided" THEN ~over ELSE (slides \/ st.isSlided)
        \* lines 232-234
        motion == IF isPressed(pressed, "ENTER") THEN "RUNNING" ELSE st.motionState
        \* lines 240-259
        es7 == [es6 EXCEPT ![cam].z = Lateral(@, pressed, st.level, deltaTime)]
    IN [entities |-> es7, jumpState |-> js2, slideState |-> ss2, slideTime |-> time2,
        mouse_locked |-> lock.locked, lockDepth |-> st.lockDepth + lock.calls,
        motionState |-> motion, isSlided |-> slid,
        levelState |-> st.levelState, level |-> st.level]

\* the fields update reads and writes
Current ==
    [entities |-> entities, jumpState |-> jumpState, slideState |-> slideState,
     slideTime |-> slideTime, mouse_locked |-> mouse_locked, lockDepth |-> lockDepth,
     motionState |-> motionState, isSlided |-> isSlided,
     levelState |-> levelState, level |-> level]

\* the outcomes of update(world, deltaTime, motionState, isSlided): the entities
\* are iterated in an unspecified order (a set of pointers), so any entity
\* with both components is the camera and any with a player component the player
UpdateResults(st, pressed, deltaTime) ==
    IF ~Found(st.entities) THEN { st }
    ELSE { UpdateBody(st, cam, ply, pressed, deltaTime) :
             cam \in CameraEntities(st.entities), ply \in PlayerEntities(st.entities) }

\* one call of update with the given keys held
UpdateWith(pressed, deltaTime) ==
    /\ Idle
    /\ \E new \in UpdateResults(Current, pressed, deltaTime) :
          /\ entities' = new.entities
          /\ jumpState' = new.jumpState
          /\ slideState' = new.slideState
          /\ slideTime' = new.slideTime
          /\ mouse_locked' = new.mouse_locked
          /\ lockDepth' = new.lockDepth
          /\ motionState' = new.motionState
          /\ isSlided' = new.isSlided
    /\ updated' = TRUE
    /\ UNCHANGED <<levelState, level>>
    /\ UNCHANGED loadVars /\ UNCHANGED menuVars

\* an update call of the game loop, with the keys and the frame delta of the frame
Update ==
    /\ \E pressed \in PressedSets, deltaTime \in DeltaTimes : UpdateWith(pressed, deltaTime)
    /\ UNCHANGED <<steady, frames>>

\* lines 263-268
Exit ==
    /\ Idle
    /\ IF mouse_locked
       THEN mouse_locked' = FALSE /\ lockDepth' = lockDepth - 1
       ELSE UNCHANGED <<mouse_locked, lockDepth>>
    /\ UNCHANGED <<entities, jumpState, slideState, slideTime, motionState, isSlided,
                   levelState, level, updated, steady, frames>>
    /\ UNCHANGED loadVars /\ UNCHANGED menuVars

\* an entity of a loaded scene; the camera is turned a quarter (1.57 rad)
\* about y to look along -x
SceneEntity(n, parent, py, comps) ==
    [name |-> n, parent |-> parent, x |-> 0, y |-> py, z |-> 0, rx |-> 0,
     ry |-> IF "camera" \in comps THEN 157 ELSE 0,
     components |-> comps]

\* the camera starts on the ground (1.0) or above it (2.5)
CameraHeights == { Units(1), 5 }

\* the worlds update is run on: camera and player in either order, the player
\* a child of the camera or not; and worlds lacking one of the three components
Scenes ==
    { <<SceneEntity("camera", NullEntity, h, {"camera", "controller"}),
        SceneEntity("player", 1, 0, {"player", "mesh"})>> : h \in CameraHeights }
    \cup
    { <<SceneEntity("player", NullEntity, 0, {"player", "mesh"}),
        SceneEntity("road", NullEntity, 0, {"mesh"}),
        SceneEntity("camera", NullEntity, Units(1), {"camera", "controller"})>>,
      <<SceneEntity("camera", NullEntity, Units(1), {"camera"}),
        SceneEntity("controller", NullEntity, 0, {"controller"}),
        SceneEntity("player", NullEntity, 0, {"player"})>>,
      <<SceneEntity("camera", NullEntity, Units(1), {"camera", "controller"}),
        SceneEntity("road", NullEntity, 0, {"mesh"})>>,
      <<SceneEntity("player", NullEntity, 0, {"player"})>>,
      <<>> }

\* level 2 is treated as level 1 by update
Levels == {1, 3}

\* a scene is loaded, the controller is constructed; the world is the one
\* of the level chosen
InitCtl ==
    /\ entities \in Scenes
    /\ InitLoad
    /\ InitController
    /\ InitSteady
    /\ InitPlaying
    /\ levelState \in Levels
    /\ level = levelState

NextCtl == Update \/ Exit

SpecCtl == InitCtl /\ [][NextCtl]_vars

(***************************************************************************)
(* The game loop at a frame rate that is constant (steady > 0, every       *)
(* update gets the frame delta steady) or not (steady = 0, any delta).     *)
(* frames counts, at a constant rate, the updates in a row that ended      *)
(* Slided.  The loop keeps calling update.                                 *)
(***************************************************************************)
InitSlide ==
    /\ entities \in Scenes
    /\ InitLoad
    /\ InitController
    /\ levelState \in Levels
    /\ level = levelState
    /\ steady \in {0} \cup DeltaTimes
    /\ frames = 0
    /\ InitPlaying

UpdateSteady ==
    /\ steady # 0
    /\ \E pressed \in PressedSets : UpdateWith(pressed, steady)
    /\ frames' = IF slideState' = "Slided" THEN frames + 1 ELSE 0
    /\ UNCHANGED steady

\* the keys the jump and the slide read
JumpSlideKeys == {"S", "DOWN", "SPACE", "UP"}

\* at a varying rate the frames differ in these keys and in the delta
UpdateVarying ==
    /\ steady = 0
    /\ \E pressed \in { p \in PressedSets : p \subseteq JumpSlideKeys }, deltaTime \in DeltaTimes :
          UpdateWith(pressed, deltaTime)
    /\ UNCHANGED <<steady, frames>>

NextSlide == UpdateSteady \/ UpdateVarying \/ Exit

SpecSlide ==
    /\ InitSlide
    /\ [][NextSlide]_vars
    /\ WF_vars(UpdateSteady) /\ WF_vars(UpdateVarying)

(***************************************************************************)
(* The game loop on a scene whose camera was left at any pitch and yaw.    *)
(* The frames differ in the keys that do not move the camera along its own *)
(* axes (the jump moves position.y itself).                                *)
(***************************************************************************)
Pitches == {-300, -pitchLimit - 1, -pitchLimit, 0, pitchLimit, pitchLimit + 1, 300}

Yaws == {-700, -twoPi, -1, 0, 157, twoPi - 1, twoPi, 1000}

\* a scene with its entities holding a camera turned to pitch rx and yaw ry
Turned(scene, rx, ry) ==
    [id \in 1..Len(scene) |->
        IF "camera" \in scene[id].components
        THEN [scene[id] EXCEPT !.rx = rx, !.ry = ry] ELSE scene[id]]

TurnKeys == { {}, {"MOUSE_BUTTON_1"}, {"ENTER"}, {"SPACE"} }

InitTurn ==
    /\ entities \in { Turned(scene, rx, ry) : scene \in Scenes, rx \in Pitches, ry \in Yaws }
    /\ InitLoad
    /\ InitController
    /\ InitSteady
    /\ InitPlaying
    /\ levelState \in Levels
    /\ level = levelState

UpdateTurn ==
    /\ \E pressed \in TurnKeys, deltaTime \in DeltaTimes : UpdateWith(pressed, deltaTime)
    /\ UNCHANGED <<steady, frames>>

NextTurn == UpdateTurn \/ Exit

SpecTurn == InitTurn /\ [][NextTurn]_vars

(***************************************************************************)
(* The game loop with the lateral keys: the frames differ in the lateral   *)
(* keys, alone or with the jump key, and in the delta.                     *)
(***************************************************************************)
LateralSets ==
    { {} } \cup { {k} : k \in LateralKeys }
    \cup { {"A", "D"}, {"SPACE"}, {"SPACE", "D"}, {"SPACE", "LEFT"} }

UpdateLateral ==
    /\ \E pressed \in LateralSets, deltaTime \in DeltaTimes : UpdateWith(pressed, deltaTime)
    /\ UNCHANGED <<steady, frames>>

NextLateral == UpdateLateral \/ Exit

SpecLateral == InitCtl /\ [][NextLateral]_vars

(***************************************************************************)
(* The game loop with the keys that move the camera up and down (the jump  *)
(* keys, Q and E), the mouse button and ENTER.  The loop keeps calling     *)
(* update.                                                                 *)
(***************************************************************************)
UpDownKeys == {"SPACE", "UP", "Q", "E", "ENTER", "MOUSE_BUTTON_1"}

UpdateJump ==
    /\ \E pressed \in { p \in PressedSets : p \subseteq UpDownKeys }, deltaTime \in DeltaTimes :
          UpdateWith(pressed, deltaTime)
    /\ UNCHANGED <<steady, frames>>

NextJump == UpdateJump \/ Exit

SpecJump == InitCtl /\ [][NextJump]_vars /\ WF_vars(UpdateJump)

(***************************************************************************)
(* The game as played: the camera starts on the ground (height 1) and the  *)
(* frames differ in the jump, slide and lateral keys and in the delta.     *)
(***************************************************************************)
RunSets == LateralSets \cup { p \in PressedSets : p \subseteq JumpSlideKeys }

InitRun ==
    /\ InitCtl
    /\ \A id \in CameraEntities(entities) : entities[id].y = Units(1)

UpdateRun ==
    /\ \E pressed \in RunSets, deltaTime \in DeltaTimes : UpdateWith(pressed, deltaTime)
    /\ UNCHANGED <<steady, frames>>

NextRun == UpdateRun \/ Exit

SpecRun == InitRun /\ [][NextRun]_vars

(***************************************************************************)
(* LevelsState, the level-selection screen.  Lengths are in pixels.  A     *)
(* frame's input is the set of keys and mouse buttons that are down and    *)
(* the position of the cursor.                                             *)
(***************************************************************************)
\* the most cans the play state leaves in countPepsi
MaxPepsi == 2

\* lines 90-115: the position and size of the buttons, and what their
\* actions set
buttons ==
    << [position |-> <<140, 107>>, size |-> <<275, 70>>, levelState |-> 1, heartCount |-> 3],
       [position |-> <<90, 300>>, size |-> <<380, 80>>, levelState |-> 2, heartCount |-> 2],
       [position |-> <<140, 525>>, size |-> <<275, 70>>, levelState |-> 3, heartCount |-> 1] >>

\* Button::isInside: the rectangle with its border
isInside(button, v) ==
    /\ button.position[1] <= v[1] /\ button.position[2] <= v[2]
    /\ v[1] <= button.position[1] + button.size[1]
    /\ v[2] <= button.position[2] + button.size[2]

\* Keyboard::justPressed, Mouse::justPressed: down now and not in the frame before
justPressed(down, before, key) == key \in down /\ key \notin before

\* Application::changeState, called by a frame that has requested the
\* states of requests so far
changeState(requests, name) == Append(requests, name)

\* the keys and the button onDraw reads
MenuInputs == {"SPACE", "ESCAPE", "MOUSE_BUTTON_0"}

\* cursor positions: off every button, in each button, on the corners and
\* just off the border of the first, beside the first and in the second
Cursors ==
    { <<0, 0>>, <<200, 150>>, <<140, 107>>, <<415, 177>>, <<416, 150>>, <<200, 178>>,
      <<100, 350>>, <<200, 350>>, <<200, 550>>, <<139, 550>> }

ShortcutsBoth(st, down) ==
    LET st1 == IF justPressed(down, st.downBefore, "SPACE")
               THEN [st EXCEPT !.levelState = 1, !.countPepsi = 0, !.heartCount = 3,
                               !.requests = changeState(@, "play")]
               ELSE st
    IN IF justPressed(down, st.downBefore, "ESCAPE")
       THEN [st1 EXCEPT !.requests = changeState(@, "menu")] ELSE st1

\* lines 127-136: the key shortcuts
Shortcuts(st, down) ==
    IF justPressed(down, st.downBefore, "SPACE")
    THEN [st EXCEPT !.levelState = 1, !.countPepsi = 0, !.heartCount = 3,
                    !.requests = changeState(@, "play")]
    ELSE IF justPressed(down, st.downBefore, "ESCAPE")
         THEN [st EXCEPT !.requests = changeState(@, "menu")]
         ELSE st

\* lines 92-97, 101-106, 110-115: the action of button k
Action(st, k) ==
    [st EXCEPT !.levelState = buttons[k].levelState, !.countPepsi = 0,
               !.heartCount = buttons[k].heartCount,
               !.requests = changeState(@, "play"),
               !.invoked = Append(@, k)]

\* lines 145-148: the loop over the buttons from button k on
RECURSIVE ClickFrom(_, _, _)
ClickFrom(st, k, cursor) ==
    IF k > Len(buttons) THEN st
    ELSE ClickFrom(IF isInside(buttons[k], cursor) THEN Action(st, k) ELSE st, k + 1, cursor)

ClickWhileDown(st, down, cursor) ==
    IF "MOUSE_BUTTON_0" \in down THEN ClickFrom(st, 1, cursor) ELSE st

\* lines 144-149
Click(st, down, cursor) ==
    IF justPressed(down, st.downBefore, "MOUSE_BUTTON_0") THEN ClickFrom(st, 1, cursor) ELSE st

\* lines 178-191: the loop over the buttons from button k on; hover is the
\* local isHover
RECURSIVE HoverFrom(_, _, _, _)
HoverFrom(st, hover, k, cursor) ==
    IF k > Len(buttons) THEN [st |-> st, isHover |-> hover]
    ELSE IF isInside(buttons[k], cursor)
         THEN HoverFrom(IF ~st.buttonHover
                        THEN [st EXCEPT !.buttonHover = TRUE, !.sounds = @ + 1] ELSE st,
                        TRUE, k + 1, cursor)
         ELSE HoverFrom(st, hover, k + 1, cursor)

HoverKept(st, cursor) == HoverFrom(st, FALSE, 1, cursor).st

\* lines 176-193
Hover(st, cursor) ==
    LET done == HoverFrom(st, FALSE, 1, cursor)
    IN IF ~done.isHover THEN [done.st EXCEPT !.buttonHover = FALSE] ELSE done.st

\* the fields onDraw reads and writes, at the start of a frame
Screen ==
    [levelState |-> levelState, countPepsi |-> countPepsi, heartCount |-> heartCount,
     buttonHover |-> buttonHover, downBefore |-> downBefore,
     invoked |-> <<>>, requests |-> <<>>, sounds |-> 0]

\* lines 123-196: onDraw with the keys of down down and the cursor at cursor
DrawResult(st, down, cursor) == Hover(Click(Shortcuts(st, down), down, cursor), cursor)

\* a frame of the level-selection screen; the application then records the
\* input for the next frame and enters the state requested last, if any
onDraw(down, cursor) ==
    /\ current = "levels"
    /\ LET new == DrawResult(Screen, down, cursor)
       IN /\ levelState' = new.levelState
          /\ countPepsi' = new.countPepsi
          /\ heartCount' = new.heartCount
          /\ buttonHover' = new.buttonHover
          /\ drawn' = [invoked |-> new.invoked, requests |-> new.requests,
                       sounds |-> new.sounds,
                       inside |-> \E k \in 1..Len(buttons) : isInside(buttons[k], cursor)]
          /\ current' = IF new.requests = <<>> THEN "levels"
                        ELSE new.requests[Len(new.requests)]
    /\ downBefore' = down
    /\ UNCHANGED <<entities, level>>
    /\ UNCHANGED loadVars
    /\ UNCHANGED <<jumpState, slideState, slideTime, mouse_locked, motionState, isSlided,
                   lockDepth, updated, steady, frames>>

Draw == \E down \in SUBSET MenuInputs, cursor \in Cursors : onDraw(down, cursor)

\* the other states run, change the counters and the keys held, and the
\* application comes back to the level-selection screen: onInitialize
\* (line 37) resets buttonHover
Return ==
    /\ current # "levels"
    /\ current' = "levels"
    /\ buttonHover' = FALSE
    /\ countPepsi' \in 0..MaxPepsi
    /\ heartCount' \in 0..3
    /\ downBefore' \in SUBSET MenuInputs
    /\ drawn' = NoFrame
    /\ UNCHANGED <<entities, levelState, level>>
    /\ UNCHANGED loadVars
    /\ UNCHANGED <<jumpState, slideState, slideTime, mouse_locked, motionState, isSlided,
                   lockDepth, updated, steady, frames>>

InitLevels ==
    /\ entities = <<>>
    /\ InitLoad
    /\ InitController
    /\ InitSteady
    /\ levelState \in 1..3
    /\ level = 1
    /\ countPepsi \in 0..MaxPepsi
    /\ heartCount \in 0..3
    /\ current = "levels"
    /\ buttonHover = FALSE
    /\ downBefore \in SUBSET MenuInputs
    /\ drawn = NoFrame

NextLevels == Draw \/ Return

SpecLevels == InitLevels /\ [][NextLevels]_vars

(***************************************************************************)
(* Helpers of the properties.                                              *)
(***************************************************************************)
\* an array none of whose descriptions has a "children" or "duplicates" key
Plain(items) ==
    \A n \in 1..Len(items) : ~items[n].children.present /\ ~items[n].duplicates.present

\* the entities an array of descriptions without "children" creates under d
NumChildren(d) ==
    IF d.children.present /\ is_array(d.children.val) THEN Len(d.children.val.items) ELSE 0

Max(a, b) == IF a > b THEN a ELSE b

Full == \A v \in Rows, h \in Lanes : entityMap[v][h]

\* the description the innermost activation is working on
TopDescription == Top.data[Top.k]

\* the duplicates loop of the innermost activation has ended
DuplicatesDone ==
    /\ ~Idle
    /\ Top.phase = "dups"
    /\ TopDescription.duplicates.present
    /\ ~(Top.i < TopDescription.duplicates.count)

(***************************************************************************)
(* C1: deserialize of an array of N descriptions, none with "children" or  *)
(* "duplicates", adds exactly N entities, each with the parent argument of *)
(* the call.  Stated of every activation about to return (the recursive    *)
(* ones included) and of the world a finished top-level call leaves.       *)
(***************************************************************************)
C1_PlainArrayAddsN ==
    /\ \A n \in 1..Len(stack) :
          LET f == stack[n]
          IN (Plain(f.data) /\ f.phase = "for" /\ f.k > Len(f.data)) =>
                /\ Len(entities) = f.base + Len(f.data)
                /\ \A id \in (f.base + 1)..Len(entities) : entities[id].parent = f.parent
    /\ (Idle /\ call.made /\ is_array(call.data) /\ Plain(call.data.items)) =>
          /\ Len(entities) = Len(call.before) + Len(call.data.items)
          /\ \A id \in (Len(call.before) + 1)..Len(entities) :
                entities[id].parent = call.parent
          /\ SubSeq(entities, 1, Len(call.before)) = call.before

\* a finished call of two plain descriptions under a given (non-null) parent
C1_Witness ==
    /\ Idle /\ call.made /\ is_array(call.data) /\ Plain(call.data.items)
    /\ Len(call.data.items) = 2
    /\ call.parent # NullEntity
    /\ Len(entities) = Len(call.before) + 2

(***************************************************************************)
(* C2: a description with duplicates = [count, spacing, flag] gets exactly *)
(* count - 1 copies besides the original (none when count <= 1), each made *)
(* from the same data and with the original's parent, for both flags.      *)
(* Stated where the duplicates loop has ended: the entities after the      *)
(* original are its children's and then the copies.                        *)
(***************************************************************************)
C2_DuplicateCount ==
    DuplicatesDone =>
        LET d == TopDescription
            copies == Max(d.duplicates.count - 1, 0)
            first == Top.newEntity + NumChildren(d) + 1
        IN /\ Len(entities) = Top.newEntity + NumChildren(d) + copies
           /\ \A id \in first..Len(entities) :
                 /\ entities[id].name = entities[Top.newEntity].name
                 /\ entities[id].components = entities[Top.newEntity].components
                 /\ entities[id].y = entities[Top.newEntity].y
                 /\ entities[id].parent = entities[Top.newEntity].parent
                 /\ entities[id].parent = Top.parent

\* the loop has ended after two linear copies; one random copy was made before
C2_Witness ==
    /\ DuplicatesDone
    /\ TopDescription.duplicates.count = 3
    /\ TopDescription.duplicates.flag = 0
    /\ Len(entities) = Top.newEntity + NumChildren(TopDescription) + 2
    /\ \E v \in Rows, h \in Lanes : entityMap[v][h]

(***************************************************************************)
(* C3: with duplicates = [count, spacing, false] the i-th copy has the y   *)
(* and z of the original and x = original x - i * spacing.                 *)
(***************************************************************************)
C3_LinearSpacing ==
    (~Idle /\ Top.phase = "dups" /\ TopDescription.duplicates.present
       /\ TopDescription.duplicates.flag = 0) =>
        LET original == entities[Top.newEntity]
            made == Top.i - 1
        IN \A j \in 1..made :
              LET copy == entities[Len(entities) - made + j]
              IN /\ copy.x = original.x - j * TopDescription.duplicates.spacing
                 /\ copy.y = original.y
                 /\ copy.z = original.z

\* two linear copies were made
C3_Witness ==
    /\ ~Idle /\ Top.phase = "dups" /\ TopDescription.duplicates.present
    /\ TopDescription.duplicates.flag = 0
    /\ Top.i = 3
    /\ entities[Len(entities)].x = entities[Top.newEntity].x - 6

(***************************************************************************)
(* C4: with random placement no two duplicates are ever given the same     *)
(* cell: every cell given lies in the grid, was free just before and is    *)
(* occupied afterwards, over any sequence of calls and worlds.             *)
(***************************************************************************)
C4_NoCellTwice ==
    /\ [](\A v \in Rows, h \in Lanes :
            /\ assigned[v][h] <= 1
            /\ entityMap[v][h] <=> assigned[v][h] = 1)
    /\ [][assigned' # assigned =>
            \E v \in Rows, h \in Lanes :
               /\ ~entityMap[v][h]
               /\ entityMap' = [entityMap EXCEPT ![v][h] = TRUE]
               /\ assigned' = [assigned EXCEPT ![v][h] = 1]
               /\ Top.vertical = v /\ Top.horizontal = h]_vars
    /\ [][entityMap' # entityMap => assigned' # assigned]_vars

\* every cell of the grid has been given to one duplicate
C4_Witness == Full /\ \A v \in Rows, h \in Lanes : assigned[v][h] = 1

(***************************************************************************)
(* C5: placing a random duplicate ends (under fair random choice) whenever *)
(* a cell is free, and never ends once the whole grid is occupied.         *)
(***************************************************************************)
C5_RejectionSampling ==
    /\ (InWhile /\ ~Full) ~> ~InWhile
    /\ [][(InWhile /\ Full) => (InWhile' /\ UNCHANGED <<entities, entityMap>>)]_vars

\* a duplicate is waiting for a cell and the grid is full
C5_Witness == InWhile /\ Full

(***************************************************************************)
(* C6: deserialize of data that is not an array is a no-op: no entity is   *)
(* added, the entities and the occupancy grid stay as they were.           *)
(***************************************************************************)
C6_NonArrayNoOp ==
    (call.made /\ ~is_array(call.data)) =>
        /\ Idle
        /\ entities = call.before
        /\ entityMap = call.map

\* the call was given an object on a world that held an entity
C6_Witness ==
    /\ call.made /\ call.data = JObjectOf(<<Coin>>)
    /\ Len(call.before) = 1
    /\ Idle

(***************************************************************************)
(* Helpers of the controller properties.  The properties of update are     *)
(* stated of every call that can be made in a reachable state: Outcomes is *)
(* what the call leaves, to be compared with the state it is made in.      *)
(***************************************************************************)
\* the camera entity of the world and its height, now and in an outcome
TheCamera == CHOOSE id \in CameraEntities(entities) : TRUE
CameraY == entities[TheCamera].y
HeightIn(new) == new.entities[TheCamera].y

\* the states a call of update with these keys held can leave
Outcomes(pressed, deltaTime) == UpdateResults(Current, pressed, deltaTime)

\* some entity holds a camera and a controller, and some entity a player
HasEntities ==
    /\ \E id \in 1..Len(entities) : {"camera", "controller"} \subseteq entities[id].components
    /\ \E id \in 1..Len(entities) : "player" \in entities[id].components

JumpKey(pressed) == "SPACE" \in pressed \/ "UP" \in pressed
NoUpDownKey(pressed) == "Q" \notin pressed /\ "E" \notin pressed

\* speed * dt
Rise(deltaTime) == Travel(jumpSpeed, deltaTime)

\* the jump key is held while GROUNDED and NORMAL
JumpAsked(pressed) == JumpKey(pressed) /\ jumpState = "GROUNDED" /\ slideState = "NORMAL"

(***************************************************************************)
(* C7: update changes nothing when no entity holds both a camera and a     *)
(* controller or none holds a player: the controller's state, the caller's *)
(* motionState and isSlided and every transform stay, no lock or unlock    *)
(* call is made.  Otherwise the body runs, in whatever order the entities  *)
(* are: the lock flag follows the mouse button, ENTER starts the run and a *)
(* grounded camera is put at height 1.                                     *)
(***************************************************************************)
C7_SkipsWithoutEntities ==
    \A pressed \in PressedSets, deltaTime \in DeltaTimes :
       \A new \in Outcomes(pressed, deltaTime) :
          IF ~HasEntities
          THEN new = Current
          ELSE /\ new.mouse_locked = ("MOUSE_BUTTON_1" \in pressed)
               /\ "ENTER" \in pressed => new.motionState = "RUNNING"
               /\ new.jumpState = "GROUNDED" => HeightIn(new) = Units(1)

\* updates were called on a world whose camera and controller are on
\* different entities
C7_Witness ==
    /\ updated
    /\ Len(entities) = 3
    /\ CameraEntities(entities) = {}
    /\ PlayerEntities(entities) # {}
    /\ ~mouse_locked /\ motionState = "RESTING"

(***************************************************************************)
(* C8 as claimed: an update with the jump key held while GROUNDED and      *)
(* NORMAL ends JUMPING with the camera higher.                             *)
(***************************************************************************)
C8_Claimed ==
    \A pressed \in PressedSets, deltaTime \in DeltaTimes :
       \A new \in Outcomes(pressed, deltaTime) :
          (HasEntities /\ JumpAsked(pressed)) =>
             (new.jumpState = "JUMPING" /\ HeightIn(new) > CameraY)

\* the height after the Q/E movement and the increment that starts the jump
StartedAt(pressed, deltaTime) == UpDown(CameraY, pressed, deltaTime) + Rise(deltaTime)

(***************************************************************************)
(* C8 amended: an update that finds its entities, with the jump key held   *)
(* while GROUNDED and NORMAL, ends JUMPING with the camera higher when     *)
(* levelState is not 3 and the height after the start increment (height +  *)
(* speed * dt, moved by Q/E) is above 1 and below the maximum height: the  *)
(* camera ends another speed * dt above that height.  When that height has *)
(* reached the maximum the update ends FALLING, speed * dt below it; when  *)
(* levelState is 3 no jump starts and the update does not end JUMPING.     *)
(***************************************************************************)
C8_JumpStarts ==
    \A pressed \in PressedSets, deltaTime \in DeltaTimes :
       \A new \in Outcomes(pressed, deltaTime) :
          (HasEntities /\ JumpAsked(pressed)) =>
             LET mid == StartedAt(pressed, deltaTime)
             IN /\ (levelState # 3 /\ mid > Units(1) /\ mid < Units(jumpMaxHeight)) =>
                     /\ new.jumpState = "JUMPING"
                     /\ HeightIn(new) = mid + Rise(deltaTime)
                     /\ HeightIn(new) > CameraY
                /\ (levelState # 3 /\ mid >= Units(jumpMaxHeight)) =>
                     /\ new.jumpState = "FALLING"
                     /\ HeightIn(new) = mid - Rise(deltaTime)
                /\ levelState = 3 => new.jumpState # "JUMPING"

\* the jump has just started from the ground with the shortest frame
C8_Witness ==
    /\ Found(entities)
    /\ jumpState = "JUMPING"
    /\ levelState # 3
    /\ CameraY = Units(1) + 2 * Rise(1)

(***************************************************************************)
(* C9 as claimed: with neither Q nor E held, an update changes jumpState   *)
(* only along GROUNDED -> JUMPING -> FALLING -> GROUNDED, never GROUNDED   *)
(* to FALLING nor JUMPING to GROUNDED; the height strictly increases in an *)
(* update that stays JUMPING and strictly decreases in one that stays      *)
(* FALLING.                                                                *)
(***************************************************************************)
C9_Claimed ==
    \A pressed \in PressedSets, deltaTime \in DeltaTimes :
       \A new \in Outcomes(pressed, deltaTime) :
          (HasEntities /\ NoUpDownKey(pressed)) =>
             /\ <<jumpState, new.jumpState>> \in
                   { <<"GROUNDED", "GROUNDED">>, <<"GROUNDED", "JUMPING">>,
                     <<"JUMPING", "JUMPING">>, <<"JUMPING", "FALLING">>,
                     <<"FALLING", "FALLING">>, <<"FALLING", "GROUNDED">> }
             /\ (jumpState = "JUMPING" /\ new.jumpState = "JUMPING") => HeightIn(new) > CameraY
             /\ (jumpState = "FALLING" /\ new.jumpState = "FALLING") => HeightIn(new) < CameraY

(***************************************************************************)
(* C10 as claimed: with neither Q nor E held, an update that ends JUMPING  *)
(* leaves the camera exactly speed * dt higher than before, the update in  *)
(* which the jump starts included; one that ends FALLING leaves it exactly *)
(* speed * dt lower; one that ends GROUNDED leaves it at exactly 1.        *)
(***************************************************************************)
C10_Claimed ==
    \A pressed \in PressedSets, deltaTime \in DeltaTimes :
       \A new \in Outcomes(pressed, deltaTime) :
          (HasEntities /\ NoUpDownKey(pressed)) =>
             /\ new.jumpState = "JUMPING" => HeightIn(new) = CameraY + Rise(deltaTime)
             /\ new.jumpState = "FALLING" => HeightIn(new) = CameraY - Rise(deltaTime)
             /\ new.jumpState = "GROUNDED" => HeightIn(new) = Units(1)

(***************************************************************************)
(* Helpers of the slide properties.                                        *)
(***************************************************************************)
ThePlayer == CHOOSE id \in PlayerEntities(entities) : TRUE

SlideKey(pressed) == "S" \in pressed \/ "DOWN" \in pressed

\* the pose (rotation.x, position.y, position.z) of the player in an outcome
PoseIn(st) == <<st.entities[ThePlayer].rx, st.entities[ThePlayer].y, st.entities[ThePlayer].z>>

\* a pose with the offset of the slide: rotation.x - 90, position.y + 1,
\* position.z - 1
Offset(pose) == <<pose[1] - 90 * 100, pose[2] + Units(1), pose[3] - Units(1)>>

\* the pose the scenes give the player
StandingPose == <<0, 0, 0>>

\* the offset is in effect in an outcome exactly when it is Slided
OffsetIffSlided(st) ==
    PoseIn(st) = IF st.slideState = "Slided" THEN Offset(StandingPose) ELSE StandingPose

(***************************************************************************)
(* C11 as claimed: an update with S or down held while GROUNDED and NORMAL *)
(* ends Slided with the offset applied once to the player; at the end of   *)
(* every update the offset is in effect exactly when slideState is Slided, *)
(* so the pose is back to what it was once the state is NORMAL again.      *)
(***************************************************************************)
C11_Claimed ==
    \A pressed \in PressedSets, deltaTime \in DeltaTimes :
       \A new \in Outcomes(pressed, deltaTime) :
          HasEntities =>
             /\ (SlideKey(pressed) /\ jumpState = "GROUNDED" /\ slideState = "NORMAL") =>
                   (new.slideState = "Slided" /\ PoseIn(new) = Offset(PoseIn(Current)))
             /\ OffsetIffSlided(new)

(***************************************************************************)
(* C11 amended: a slide is triggered by S or down held while slideState is *)
(* NORMAL, app->levelState is not 3 and jumpState is GROUNDED once the     *)
(* jump logic of that update has run (no jump started in it), and by       *)
(* nothing else.  The triggering update ends Slided with the offset        *)
(* applied once to the player; at the end of every update the offset is in *)
(* effect exactly when slideState is Slided, so the pose is back to what   *)
(* it was before the slide once the state is NORMAL again.                 *)
(***************************************************************************)
C11_SlideOffset ==
    \A pressed \in PressedSets, deltaTime \in DeltaTimes :
       \A new \in Outcomes(pressed, deltaTime) :
          HasEntities =>
             LET triggered == /\ SlideKey(pressed) /\ slideState = "NORMAL"
                              /\ levelState # 3 /\ new.jumpState = "GROUNDED"
             IN /\ triggered =>
                     (new.slideState = "Slided" /\ PoseIn(new) = Offset(PoseIn(Current)))
                /\ (slideState = "NORMAL" /\ new.slideState = "Slided") => triggered
                /\ OffsetIffSlided(new)
                /\ (slideState = "Slided" /\ new.slideState = "NORMAL") =>
                     Offset(PoseIn(new)) = PoseIn(Current)

\* a slide has run its full time and the player stands again
C11_Witness ==
    /\ Found(entities)
    /\ slideState = "NORMAL"
    /\ slideTime >= slideFrames
    /\ PoseIn(Current) = StandingPose
    /\ ~isSlided

(***************************************************************************)
(* C12: a slide lasts 50 frame deltas.  At a constant frame rate the       *)
(* controller is Slided at the end of exactly 49 updates in a row, the     *)
(* triggering one being the first, and is NORMAL again at the end of the   *)
(* 50th; and whatever the (positive, bounded) frame deltas, a slide that   *)
(* started comes back to NORMAL as the loop keeps calling update.          *)
(***************************************************************************)
C12_SteadySlide ==
    (steady # 0 /\ HasEntities /\ slideState = "Slided") =>
       /\ frames \in 1..(slideFrames - 1)
       /\ slideTime = frames * steady
       /\ \A pressed \in PressedSets : \A new \in Outcomes(pressed, steady) :
             new.slideState = "Slided" <=> frames < slideFrames - 1

C12_SlideEnds == (slideState = "Slided") ~> (slideState = "NORMAL")

C12_SlideLasts == []C12_SteadySlide /\ C12_SlideEnds

\* at a constant frame rate a slide has just ended, in its 50th update
C12_Witness ==
    /\ steady # 0
    /\ slideState = "NORMAL"
    /\ slideTime = slideFrames * steady
    /\ frames = 0
    /\ ~isSlided

(***************************************************************************)
(* C13: after every update that finds the camera, the controller and the   *)
(* player, the pitch of the camera is within [-0.99 * pi/2, 0.99 * pi/2]   *)
(* and its yaw within [0, 2 * pi), whatever they were before.              *)
(***************************************************************************)
C13_PitchYawInRange ==
    /\ \A pressed \in TurnKeys, deltaTime \in DeltaTimes :
          \A new \in Outcomes(pressed, deltaTime) :
             HasEntities =>
                /\ new.entities[TheCamera].rx >= -pitchLimit
                /\ new.entities[TheCamera].rx <= pitchLimit
                /\ new.entities[TheCamera].ry >= 0
                /\ new.entities[TheCamera].ry < twoPi
    /\ (updated /\ HasEntities) =>
          /\ entities[TheCamera].rx \in (-pitchLimit)..pitchLimit
          /\ entities[TheCamera].ry \in 0..(twoPi - 1)

\* an update has run on a camera that was pitched below the limit and turned
\* by less than a period backwards
C13_Witness ==
    /\ updated /\ HasEntities
    /\ entities[TheCamera].rx = -pitchLimit
    /\ entities[TheCamera].ry = twoPi - 72

(***************************************************************************)
(* Helpers of the properties of the level-selection screen.                *)
(***************************************************************************)
\* what a frame with this input does to the screen as it is
ThisFrame(down, cursor) == DrawResult(Screen, down, cursor)

\* the key or button went down in this frame
Fresh(down, key) == key \in down /\ key \notin downBefore

\* the cursor is in the rectangle of button k, border included
InRectangle(k, cursor) ==
    /\ cursor[1] \in buttons[k].position[1]..(buttons[k].position[1] + buttons[k].size[1])
    /\ cursor[2] \in buttons[k].position[2]..(buttons[k].position[2] + buttons[k].size[2])

\* how many times the frame invoked the action of button k
Invocations(new, k) == Cardinality({ i \in 1..Len(new.invoked) : new.invoked[i] = k })

(***************************************************************************)
(* C14: in a frame of the level-selection screen the action of a button is *)
(* invoked once if the left button went down in that frame with the cursor *)
(* in the button's rectangle, and not at all otherwise: not while the      *)
(* button is held from an earlier frame, not with the cursor outside.      *)
(***************************************************************************)
C14_OncePerFreshPress ==
    current = "levels" =>
       \A down \in SUBSET MenuInputs, cursor \in Cursors, k \in 1..Len(buttons) :
          Invocations(ThisFrame(down, cursor), k) =
             IF Fresh(down, "MOUSE_BUTTON_0") /\ InRectangle(k, cursor) THEN 1 ELSE 0

\* the last frame invoked the action of the second button, and of no other
C14_Witness ==
    /\ drawn.invoked = <<2>>
    /\ "MOUSE_BUTTON_0" \in downBefore
    /\ levelState = 2
    /\ current = "play"

(***************************************************************************)
(* C15 as claimed: the camera starts with z in [-5, 5] and, whatever the   *)
(* lateral keys and the frame deltas of the updates, in level 3 as in the  *)
(* others, z stays in [-5, 5].                                             *)
(***************************************************************************)
C15_Claimed ==
    HasEntities =>
       /\ entities[TheCamera].z >= -Units(laneLimit)
       /\ entities[TheCamera].z <= Units(laneLimit)

(***************************************************************************)
(* C16: the lock and unlock calls alternate, a lock first: the calls made  *)
(* so far are as many locks as unlocks while the flag is false and one     *)
(* lock more while it is true.  An update that finds its entities leaves   *)
(* the flag equal to whether mouse button 1 is pressed, and exit leaves    *)
(* the pointer unlocked and the flag false.                                *)
(***************************************************************************)
C16_Alternate ==
    /\ lockDepth = IF mouse_locked THEN 1 ELSE 0
    /\ \A pressed \in PressedSets, deltaTime \in DeltaTimes :
          \A new \in Outcomes(pressed, deltaTime) :
             /\ new.lockDepth - lockDepth \in {-1, 0, 1}
             /\ new.lockDepth \in {0, 1}
             /\ HasEntities => new.mouse_locked = ("MOUSE_BUTTON_1" \in pressed)

C16_ExitUnlocks == [][Exit => (~mouse_locked' /\ lockDepth' = 0)]_vars

C16_PointerLock == []C16_Alternate /\ C16_ExitUnlocks

\* the pointer is locked by an update, by one lock call more than unlock calls
C16_Witness ==
    /\ updated /\ HasEntities
    /\ mouse_locked
    /\ lockDepth = 1

(***************************************************************************)
(* The guards between jump and slide: no update ends Slided and         *)
(* JUMPING; a jump starts only when slideState is NORMAL; a slide starts   *)
(* only when jumpState is GROUNDED where the slide is decided, which is    *)
(* the jumpState the update ends with.                                     *)
(***************************************************************************)
JumpSlideGuards(new) ==
    /\ ~(new.slideState = "Slided" /\ new.jumpState = "JUMPING")
    /\ (jumpState = "GROUNDED" /\ new.jumpState = "JUMPING") => slideState = "NORMAL"
    /\ (slideState = "NORMAL" /\ new.slideState = "Slided") => new.jumpState = "GROUNDED"

(***************************************************************************)
(* C17 as claimed: the guards above, and an update with the jump key and   *)
(* the slide key both held while GROUNDED and NORMAL starts the jump and   *)
(* not the slide.                                                          *)
(***************************************************************************)
C17_Claimed ==
    \A pressed \in PressedSets, deltaTime \in DeltaTimes :
       \A new \in Outcomes(pressed, deltaTime) :
          HasEntities =>
             /\ JumpSlideGuards(new)
             /\ (JumpAsked(pressed) /\ SlideKey(pressed)) =>
                   (new.jumpState # "GROUNDED" /\ new.slideState = "NORMAL")

(***************************************************************************)
(* C17 amended: the guards above; an update with the jump key and the      *)
(* slide key both held while GROUNDED and NORMAL, the camera at the ground *)
(* height 1 or above, starts the jump and not the slide when levelState is *)
(* not 3, and starts neither when levelState is 3.                         *)
(***************************************************************************)
C17_JumpBeforeSlide ==
    /\ ~(slideState = "Slided" /\ jumpState = "JUMPING")
    /\ \A pressed \in PressedSets, deltaTime \in DeltaTimes :
          \A new \in Outcomes(pressed, deltaTime) :
             HasEntities =>
                /\ JumpSlideGuards(new)
                /\ (JumpAsked(pressed) /\ SlideKey(pressed) /\ CameraY >= Units(1)) =>
                      /\ new.slideState = "NORMAL"
                      /\ PoseIn(new) = PoseIn(Current)
                      /\ levelState # 3 => new.jumpState # "GROUNDED"
                      /\ (levelState = 3 /\ CameraY < Units(jumpMaxHeight)) =>
                            new.jumpState = "GROUNDED"

\* a jump is under way after an earlier slide has ended
C17_Witness ==
    /\ HasEntities
    /\ jumpState = "JUMPING"
    /\ slideState = "NORMAL"
    /\ slideTime >= slideFrames
    /\ PoseIn(Current) = StandingPose

C18_ThroughFalling ==
    \A pressed \in PressedSets, deltaTime \in DeltaTimes :
       \A new \in Outcomes(pressed, deltaTime) :
          (HasEntities /\ jumpState = "JUMPING") =>
             /\ new.jumpState = "GROUNDED" => "E" \in pressed
             /\ new.jumpState = "GROUNDED" => HeightIn(new) = Units(1)

Created == (Len(call.before) + 1)..Len(entities)

\* the first of them: the original of the description of a scene of
\* GridDocuments
Original == Len(call.before) + 1

(***************************************************************************)
(* C19 as claimed: once a call on a description with random placement is   *)
(* over, every duplicate is at x = original x - row * 13 and               *)
(* z = -7.5 + column * 2.5 for a cell (row, column) of the grid, and no    *)
(* two of the entities created, the original among them, are at the same   *)
(* (x, z).                                                                 *)
(***************************************************************************)
C19_Claimed ==
    (Idle /\ call.made /\ call.data \in GridDocuments) =>
       /\ \A e \in Created \ {Original} :
             \E v \in Rows, h \in Lanes :
                /\ entities[e].x = entities[Original].x - v * SLICE_SIZE * 2
                /\ entities[e].z = -15 + h * 5
       /\ \A e, f \in Created :
             e # f => <<entities[e].x, entities[e].z>> # <<entities[f].x, entities[f].z>>

(***************************************************************************)
(* Helpers of the level-selection property.                                *)
(***************************************************************************)
\* the frame leaves a new game of level k
StartsLevel(new, k) ==
    /\ new.levelState = k
    /\ new.countPepsi = 0
    /\ new.heartCount = 4 - k

\* the state the application enters after the frame, "" if it stays
Entered(new) == IF new.requests = <<>> THEN "" ELSE new.requests[Len(new.requests)]

\* the frame clicks button k
Clicks(down, cursor, k) == Fresh(down, "MOUSE_BUTTON_0") /\ InRectangle(k, cursor)

(***************************************************************************)
(* C20 as claimed: a click on button k leaves levelState = k, countPepsi = *)
(* 0 and heartCount = 4 - k and requests the play state; a fresh space     *)
(* does what button 1 does; a fresh escape requests the menu state unless  *)
(* space went down in the same frame; no frame requests more than one      *)
(* state change.                                                           *)
(***************************************************************************)
C20_Claimed ==
    current = "levels" =>
       \A down \in SUBSET MenuInputs, cursor \in Cursors :
          LET new == ThisFrame(down, cursor)
          IN /\ \A k \in 1..Len(buttons) :
                   Clicks(down, cursor, k) => (StartsLevel(new, k) /\ Entered(new) = "play")
             /\ Fresh(down, "SPACE") => (StartsLevel(new, 1) /\ Entered(new) = "play")
             /\ (Fresh(down, "ESCAPE") /\ ~Fresh(down, "SPACE")) => Entered(new) = "menu"
             /\ Fresh(down, "SPACE") => \A i \in 1..Len(new.requests) : new.requests[i] # "menu"
             /\ Len(new.requests) <= 1

(***************************************************************************)
(* C20 amended: a click on button k leaves levelState = k, countPepsi = 0  *)
(* and heartCount = 4 - k and requests the play state, whatever the keys.  *)
(* In a frame that clicks no button, a fresh space does what button 1 does *)
(* and a fresh escape without a fresh space requests the menu state and    *)
(* leaves the three values as they were.  A fresh escape is ignored when   *)
(* space went down in the same frame.  The keys request one state change   *)
(* at most and the click one more: a frame with a shortcut and a click     *)
(* requests two, and the click's is the one that counts.                   *)
(***************************************************************************)
C20_StartState ==
    current = "levels" =>
       \A down \in SUBSET MenuInputs, cursor \in Cursors :
          LET new == ThisFrame(down, cursor)
              clicked == \E k \in 1..Len(buttons) : Clicks(down, cursor, k)
              shortcut == Fresh(down, "SPACE") \/ Fresh(down, "ESCAPE")
          IN /\ \A k \in 1..Len(buttons) :
                   Clicks(down, cursor, k) => (StartsLevel(new, k) /\ Entered(new) = "play")
             /\ (Fresh(down, "SPACE") /\ ~clicked) =>
                   (StartsLevel(new, 1) /\ new.requests = <<"play">>)
             /\ (Fresh(down, "ESCAPE") /\ ~Fresh(down, "SPACE") /\ ~clicked) =>
                   /\ new.requests = <<"menu">>
                   /\ new.levelState = levelState
                   /\ new.countPepsi = countPepsi
                   /\ new.heartCount = heartCount
             /\ Fresh(down, "SPACE") => \A i \in 1..Len(new.requests) : new.requests[i] # "menu"
             /\ Len(new.requests) = (IF shortcut THEN 1 ELSE 0) + (IF clicked THEN 1 ELSE 0)
             /\ (~shortcut /\ ~clicked) =>
                   /\ new.levelState = levelState
                   /\ new.countPepsi = countPepsi
                   /\ new.heartCount = heartCount

\* a fresh space with escape has started level 1 from a screen that showed
\* other values
C20_Witness ==
    /\ current = "play"
    /\ drawn.requests = <<"play">>
    /\ drawn.invoked = <<>>
    /\ {"SPACE", "ESCAPE"} \subseteq downBefore
    /\ levelState = 1 /\ countPepsi = 0 /\ heartCount = 3

(***************************************************************************)
(* C21: the hover sound is played in exactly the frames whose cursor is    *)
(* inside some button while it was inside none in the frame before (or the *)
(* screen was just entered), once in such a frame; and at the end of every *)
(* frame buttonHover tells whether the cursor is inside some button.       *)
(***************************************************************************)
C21_HoverSoundOnce ==
    /\ buttonHover = drawn.inside
    /\ current = "levels" =>
          \A down \in SUBSET MenuInputs, cursor \in Cursors :
             LET new == ThisFrame(down, cursor)
                 inside == \E k \in 1..Len(buttons) : InRectangle(k, cursor)
             IN /\ new.sounds = IF inside /\ ~drawn.inside THEN 1 ELSE 0
                /\ new.buttonHover = inside

\* the cursor has just come onto a button and the sound was played
C21_Witness ==
    /\ current = "levels"
    /\ drawn.sounds = 1
    /\ drawn.inside
    /\ buttonHover
    /\ drawn.requests = <<>>

(***************************************************************************)
(* C22: for a description with both "children" and "duplicates" (count at  *)
(* least 1), where the duplicates loop has ended: the children were made   *)
(* once, with the original as parent; no entity has a copy as parent; the  *)
(* description made (1 + its descendants) + (count - 1) entities.          *)
(***************************************************************************)
C22_ChildrenOnlyUnderOriginal ==
    (DuplicatesDone /\ TopDescription.children.present
       /\ TopDescription.duplicates.count >= 1) =>
        LET d == TopDescription
            original == Top.newEntity
            copies == (original + NumChildren(d) + 1)..Len(entities)
        IN /\ \A id \in (original + 1)..(original + NumChildren(d)) :
                 /\ entities[id].parent = original
                 /\ entities[id].name = d.children.val.items[id - original].name
           /\ \A id \in 1..Len(entities) : entities[id].parent \notin copies
           /\ Cardinality({ id \in 1..Len(entities) : entities[id].parent = original })
                 = NumChildren(d)
           /\ Len(entities) - (original - 1) = (1 + NumChildren(d)) + (d.duplicates.count - 1)

\* the bus is done: two wheels under the original, two copies without any
C22_Witness ==
    /\ DuplicatesDone
    /\ NumChildren(TopDescription) = 2
    /\ TopDescription.duplicates.count = 3
    /\ Len(entities) = Top.newEntity + 4
    /\ entities[Len(entities)].name = entities[Top.newEntity].name

(***************************************************************************)
(* Helpers of the grid property.                                           *)
(***************************************************************************)
Cells == Rows \X Lanes

\* the occupied cells
Occupied == { c \in Cells : entityMap[c[1]][c[2]] }

RECURSIVE Placed(_)
\* the duplicates placed so far in the cells of S
Placed(S) ==
    IF S = {} THEN 0
    ELSE LET c == CHOOSE c \in S : TRUE
         IN assigned[c[1]][c[2]] + Placed(S \ {c})

(***************************************************************************)
(* C23: the occupancy grid is shared by all worlds and only grows.  Over   *)
(* any sequence of calls, on one world or on worlds created anew, no cell  *)
(* is ever cleared; the number of occupied cells is the number of random   *)
(* duplicates placed so far, growing by one exactly in the step that       *)
(* places a duplicate; and it is at most rows * lanes (2800).              *)
(***************************************************************************)
C23_GridBounded ==
    /\ Cardinality(Occupied) = Placed(Cells)
    /\ Cardinality(Occupied) <= ENTITIES_UPPER_LIMIT * LANES

C24_IsSlidedMirrors ==
    /\ HasEntities => (isSlided <=> slideState = "Slided")
    /\ \A pressed \in PressedSets, deltaTime \in DeltaTimes :
          \A new \in Outcomes(pressed, deltaTime) :
             HasEntities => (new.isSlided <=> new.slideState = "Slided")

\* a slide is under way, past its first update, and the flag is up
C24_Witness ==
    /\ updated /\ HasEntities
    /\ slideState = "Slided"
    /\ isSlided
    /\ slideTime > MaxDelta

(***************************************************************************)
(* C25 as claimed: from GROUNDED at height 1, with jump, slide and lateral *)
(* keys only, the camera is at height 1 at least and at the maximum jump   *)
(* height 4 at most at the end of every update, whatever the frame deltas. *)
(***************************************************************************)
C25_Claimed ==
    HasEntities =>
       /\ CameraY >= Units(1)
       /\ CameraY <= Units(jumpMaxHeight)

====
